---- MODULE Spec2Model ----
(***************************************************************************)
(* A model of digson.Parser (src/src/digson.py): the recursive walk over a *)
(* parsed JSON object that writes one PlantUML class block per visited     *)
(* object and one connection per object-valued (or array-of-object) field. *)
(*                                                                         *)
(* The Python call stack of nested Parser.__init__ calls is the variable   *)
(* `stack`; the file behind Parser._handle is the sequence `out` of the    *)
(* writes made so far, in order.                                           *)
(***************************************************************************)
EXTENDS Integers, Sequences, FiniteSets, TLC

VARIABLES
  input,    \* qjson handed to Parser.create
  alt,      \* a second document, walked after `input` in SpecPair only
  run,      \* 1 while `input` is walked, 2 while `alt` is walked
  status,   \* "init", "running", "error", "done", "aborted"
  stack,    \* active Parser.__init__ frames, the innermost last
  out,      \* what has been written to Parser._handle
  level,    \* Parser._level
  visits,   \* history: the constructor calls made so far, in call order
  out1,     \* SpecPair: the output of the first walk
  status1   \* SpecPair: the final status of the first walk

vars == <<input, alt, run, status, stack, out, level, visits, out1, status1>>

-----------------------------------------------------------------------------
(* Bounds of the input documents.                                          *)

MaxDepth == 2   \* objects nested below the root
MaxNest == 2    \* list levels wrapped around a list's innermost first element
MaxLen == 2     \* elements per list

KeyNames == <<"a", "b">>
PrimNames == {"int", "str", "NoneType"}

-----------------------------------------------------------------------------
(* JSON values as json.load returns them.  t is type(x).__name__; a dict   *)
(* keeps its keys in insertion order, keys[i] mapping to items[i].         *)

Prim(t) == [t |-> t, keys |-> <<>>, items |-> <<>>]
List(xs) == [t |-> "list", keys |-> <<>>, items |-> xs]
Dict(ks, xs) == [t |-> "dict", keys |-> ks, items |-> xs]
EmptyList == List(<<>>)
TailObj == Dict(<<"z">>, <<Prim("int")>>)

\* A list nested n levels deep whose chain of first elements ends in tip; every
\* element at an index above 0 is the object TailObj.
RECURSIVE Wrap(_, _, _)
Wrap(tip, n, len) ==
  IF n = 0 THEN tip
  ELSE List([j \in 1..len |-> IF j = 1 THEN Wrap(tip, n - 1, len) ELSE TailObj])

Arrays(tips) ==
  {EmptyList} \cup
  {Wrap(tip, n, len) : tip \in tips \cup {EmptyList}, n \in 1..MaxNest, len \in 1..MaxLen}

\* Objects at depth d >= 1: no key, or the one key "a" holding a primitive, an
\* empty list, a deeper object, or a list of one object.
RECURSIVE InnerObjs(_)
InnerObjs(d) ==
  LET below == IF d < MaxDepth THEN InnerObjs(d + 1) ELSE {}
      lists == IF d < MaxDepth THEN {List(<<Dict(<<"a">>, <<Prim("int")>>)>>)} ELSE {}
      vals == {Prim("int"), EmptyList} \cup below \cup lists
  IN {Dict(<<>>, <<>>)} \cup {Dict(<<"a">>, <<v>>) : v \in vals}

FieldVals ==
  LET prims == {Prim(t) : t \in PrimNames}
      objs == IF MaxDepth >= 1 THEN InnerObjs(1) ELSE {}
  IN prims \cup objs \cup Arrays(prims \cup objs)

\* The documents walked: an object with the first n of KeyNames as its keys.
IsInput(doc) ==
  \E n \in 0..Len(KeyNames) :
    \E vs \in [1..n -> FieldVals] : doc = Dict(SubSeq(KeyNames, 1, n), vs)

-----------------------------------------------------------------------------
(* Helpers.                                                                *)

RECURSIVE Rep(_, _)
Rep(s, n) == IF n <= 0 THEN <<>> ELSE <<s>> \o Rep(s, n - 1)

RECURSIVE Flatten(_)
Flatten(ss) == IF ss = <<>> THEN <<>> ELSE Head(ss) \o Flatten(Tail(ss))

Top == stack[Len(stack)]
SetTop(f) == [stack EXCEPT ![Len(stack)] = f]

-----------------------------------------------------------------------------
(* Writes to Parser._handle.  path and inst are history: the position in   *)
(* the document of the Parser instance that made the write (the field      *)
(* indices leading to it from the root) and its _instance.                 *)

Event(kind, name, conn, dst, note, fields, path, inst) ==
  [kind |-> kind, name |-> name, conn |-> conn, dst |-> dst, note |-> note,
   fields |-> fields, path |-> path, inst |-> inst]

StartUml == Event("start", "", "", "", <<>>, <<>>, <<>>, 0)
EndUml(path, inst) == Event("end", "", "", "", <<>>, <<>>, path, inst)

\* Parser._write_connection: '{} {} {}\n' or, with a note, '{} {} {}: {}\n'.
WriteConnection(source, dest, connection, note, path, inst) ==
  Event("edge", source, connection, dest, note, <<>>, path, inst)

\* Mutant: the descriptive types are paired with the keys in reverse.
WriteBlockReversed(f) ==
  Event("record", f.rootname, "", "",  <<>>,
        [j \in 1..Len(f.root.keys) |->
           <<f.root.keys[j], f.desctype[Len(f.root.keys) + 1 - j]>>],
        f.path, f.instance)

\* Parser._write_block: 'class {} {{', one '\t+{} : {}' per zip(_keys, _desctype), '}'.
WriteBlock(f) ==
  Event("record", f.rootname, "", "",  <<>>,
        [j \in 1..Len(f.root.keys) |-> <<f.root.keys[j], f.desctype[j]>>],
        f.path, f.instance)

-----------------------------------------------------------------------------
(* Parser._unravel.                                                        *)

\* Mutant: the last element is sampled.
SampleLast(l) == l.items[Len(l.items)]

\* line 86: _l = _l[0]
Sample(l) == l.items[1]

RECURSIVE UnravelLoop(_, _)
UnravelLoop(l, lev) ==
  IF l.t = "list" /\ Len(l.items) > 0
  THEN UnravelLoop(Sample(l), lev + 1)
  ELSE [l |-> l, lev |-> lev]

\* None, or the triple (_l, type(_l), lev); type(_l) is el.t.
Unravel(data) ==
  LET r == UnravelLoop(data, 0)
  IN IF r.l.t = "list"
     THEN [none |-> TRUE, el |-> r.l, lev |-> r.lev]
     ELSE [none |-> FALSE, el |-> r.l, lev |-> r.lev]

\* Mutant: one bracket pair per list level, the outermost included.
ListDescOffByOne(lev, typename) == <<"list">> \o Rep("[]", lev) \o <<"[", typename, "]">>

\* 'list{}[{}]'.format('[]'*(lev-1), listType.__name__), as its pieces.
ListDesc(lev, typename) == <<"list">> \o Rep("[]", lev - 1) \o <<"[", typename, "]">>

\* Mutant: one bracket pair per list level, the outermost included.
ElNoteOffByOne(lev) == <<"el">> \o Rep("[]", lev) \o <<"[0]">>

\* 'el{}[0]'.format('[]'*(lev-1)), as its pieces.
ElNote(lev) == <<"el">> \o Rep("[]", lev - 1) \o <<"[0]">>

-----------------------------------------------------------------------------
(* Parser.__init__ and the statement order of the code.                    *)

\* Mutant: the block is never written.
InitBodyNoBlock == <<"decode">>

\* Mutant: the block is written before the keys are decoded.
InitBodyBlockFirst == <<"write_block", "decode">>

\* __init__, lines 43-44: decode(), then _write_block().
InitBody == <<"decode", "write_block">>

\* Mutant: the connection is written before the child is constructed.
DictBranchEdgeFirst == <<"connect", "construct">>

\* Mutant: the connection is not written.
DictBranchNoEdge == <<"construct">>

\* decode, lines 69-70: construct the child Parser, then write the connection.
DictBranch == <<"construct", "connect">>

\* decode, lines 76-77: the same for the first element of a list of objects.
ListDictBranch == <<"construct", "connect">>

\* The instance number handed to a child: self._instance+1 (lines 69, 76).
ChildInstance(f) == f.instance + 1

\* Mutant: every instance writes the closing tag when it is destroyed.
DelWritesAlways(path, inst) == <<EndUml(path, inst)>>

\* __del__: the closing tag is written by the instance numbered 0.
DelWrites(path, inst) == IF inst = 0 THEN <<EndUml(path, inst)>> ELSE <<>>

\* Lines 35-42.  parser is the chain of objects kept alive through
\* self.parser (the object held, then the one it holds, ...), each as
\* [path, inst]; a fresh instance has no such attribute.
NewFrame(qjson, instance, rootname, path) ==
  [root |-> qjson,
   desctype |-> [j \in 1..Len(qjson.items) |-> <<qjson.items[j].t>>],
   instance |-> instance,
   rootname |-> rootname,
   todo |-> InitBody,
   i |-> 1,
   parser |-> <<>>,
   path |-> path]

Keys(f) == f.root.keys
Types(f) == [j \in 1..Len(f.root.items) |-> f.root.items[j].t]
Get(f, j) == f.root.items[j]

\* The statements of a branch that run before, and after, the constructor call.
RECURSIVE Before(_)
Before(b) ==
  IF b = <<>> \/ Head(b) = "construct" THEN <<>> ELSE <<Head(b)>> \o Before(Tail(b))
RECURSIVE After(_)
After(b) ==
  IF b = <<>> THEN <<>> ELSE IF Head(b) = "construct" THEN Tail(b) ELSE After(Tail(b))

\* What the listed statements of field f.i's branch write.
RECURSIVE Exec(_, _)
Exec(stmts, f) ==
  IF stmts = <<>> THEN <<>>
  ELSE (IF Head(stmts) = "connect"
        THEN IF Types(f)[f.i] = "dict"
             THEN <<WriteConnection(f.rootname, Keys(f)[f.i], "--", <<>>,
                                    f.path, f.instance)>>
             ELSE <<WriteConnection(f.rootname, Keys(f)[f.i], "..",
                                    ElNote(Unravel(Get(f, f.i)).lev),
                                    f.path, f.instance)>>
        ELSE <<>>) \o Exec(Tail(stmts), f)

\* The __del__ calls made when the head of a self.parser chain loses its last
\* reference: the object itself, then the objects it kept alive.
DelChain(chain) == Flatten([j \in 1..Len(chain) |-> DelWrites(chain[j].path, chain[j].inst)])

Held(f) == <<[path |-> f.path, inst |-> f.instance]>> \o f.parser

-----------------------------------------------------------------------------
(* The walk.                                                               *)

Doc == IF run = 1 THEN input ELSE alt

InDecode == status = "running" /\ stack # <<>> /\ Top.todo # <<>> /\ Head(Top.todo) = "decode"
AtField == InDecode /\ Top.i <= Len(Keys(Top))

\* Parser.create up to the constructor call (lines 55-57) and lines 35-42 of it.
Create ==
  /\ status = "init"
  /\ status' = "running"
  /\ out' = <<StartUml>>
  /\ stack' = <<NewFrame(Doc, 0, "root", <<>>)>>
  /\ level' = level + 1
  /\ visits' = <<[path |-> <<>>, inst |-> 0]>>
  /\ UNCHANGED <<input, alt, run, out1, status1>>

\* decode: a key whose type is neither dict nor list.
DecodePrimitive ==
  /\ AtField
  /\ Types(Top)[Top.i] \notin {"dict", "list"}
  /\ stack' = SetTop([Top EXCEPT !.i = @ + 1])
  /\ UNCHANGED <<input, alt, run, status, out, level, visits, out1, status1>>

\* decode, t == dict: up to the entry of the child's constructor.
DecodeDict ==
  /\ AtField
  /\ Types(Top)[Top.i] = "dict"
  /\ LET f == Top
         child == NewFrame(Get(f, f.i), ChildInstance(f), Keys(f)[f.i], Append(f.path, f.i))
     IN /\ out' = out \o Exec(Before(DictBranch), f)
        /\ stack' = Append(stack, child)
        /\ visits' = Append(visits, [path |-> child.path, inst |-> child.instance])
  /\ level' = level + 1
  /\ UNCHANGED <<input, alt, run, status, out1, status1>>

\* decode, t == list, _unravel returned None: unpacking it at line 72 raises TypeError.
DecodeListEmpty ==
  /\ AtField
  /\ Types(Top)[Top.i] = "list"
  /\ Unravel(Get(Top, Top.i)).none
  /\ status' = "error"
  /\ UNCHANGED <<input, alt, run, stack, out, level, visits, out1, status1>>

\* decode, t == list with a first element that is no dict.
DecodeListPrimitive ==
  /\ AtField
  /\ Types(Top)[Top.i] = "list"
  /\ LET f == Top
         u == Unravel(Get(f, f.i))
     IN /\ ~u.none
        /\ u.el.t # "dict"
        /\ stack' = SetTop([f EXCEPT !.desctype[f.i] = ListDesc(u.lev, u.el.t),
                                     !.i = @ + 1])
  /\ UNCHANGED <<input, alt, run, status, out, level, visits, out1, status1>>

\* decode, t == list of objects: up to the entry of the child's constructor.
DecodeListDict ==
  /\ AtField
  /\ Types(Top)[Top.i] = "list"
  /\ LET f == Top
         u == Unravel(Get(f, f.i))
         g == [f EXCEPT !.desctype[f.i] = ListDesc(u.lev, u.el.t)]
         child == NewFrame(u.el, ChildInstance(f), Keys(f)[f.i], Append(f.path, f.i))
     IN /\ ~u.none
        /\ u.el.t = "dict"
        /\ out' = out \o Exec(Before(ListDictBranch), g)
        /\ stack' = Append(SetTop(g), child)
        /\ visits' = Append(visits, [path |-> child.path, inst |-> child.instance])
  /\ level' = level + 1
  /\ UNCHANGED <<input, alt, run, status, out1, status1>>

\* decode: the loop over the keys is exhausted.
DecodeEnd ==
  /\ InDecode
  /\ Top.i > Len(Keys(Top))
  /\ stack' = SetTop([Top EXCEPT !.todo = Tail(@)])
  /\ UNCHANGED <<input, alt, run, status, out, level, visits, out1, status1>>

\* __init__, line 44.
WriteBlockStep ==
  /\ status = "running" /\ stack # <<>>
  /\ Top.todo # <<>> /\ Head(Top.todo) = "write_block"
  /\ out' = Append(out, WriteBlock(Top))
  /\ stack' = SetTop([Top EXCEPT !.todo = Tail(@)])
  /\ UNCHANGED <<input, alt, run, status, level, visits, out1, status1>>

\* A child's constructor returns into decode: self.parser is rebound (the
\* object it held is destroyed), the rest of the branch runs, the loop moves on.
Return ==
  /\ status = "running" /\ Len(stack) >= 2
  /\ Top.todo = <<>>
  /\ LET c == Top
         p == stack[Len(stack) - 1]
         branch == IF Types(p)[p.i] = "dict" THEN DictBranch ELSE ListDictBranch
     IN /\ out' = out \o DelChain(p.parser) \o Exec(After(branch), p)
        /\ stack' = Append(SubSeq(stack, 1, Len(stack) - 2),
                           [p EXCEPT !.parser = Held(c), !.i = @ + 1])
  /\ UNCHANGED <<input, alt, run, status, level, visits, out1, status1>>

\* The root's constructor returns into create, which drops the object: its
\* __del__ runs, then those of the objects it kept alive.
CreateEnd ==
  /\ status = "running" /\ Len(stack) = 1
  /\ Top.todo = <<>>
  /\ out' = out \o DelChain(Held(Top))
  /\ stack' = <<>>
  /\ status' = "done"
  /\ UNCHANGED <<input, alt, run, level, visits, out1, status1>>

\* The TypeError leaves create.  The instances under construction are destroyed
\* when the traceback is released: by then the caller may have closed the
\* handle (the script's `with` has), and a write to a closed file is dropped.
Unwind ==
  /\ status = "error"
  /\ \E open \in BOOLEAN :
       out' = IF open
              THEN out \o Flatten([j \in 1..Len(stack) |-> DelChain(Held(stack[j]))])
              ELSE out
  /\ stack' = <<>>
  /\ status' = "aborted"
  /\ UNCHANGED <<input, alt, run, level, visits, out1, status1>>

Finished == status \in {"done", "aborted"}

\* SpecPair: Parser.create is called again, on alt, with a fresh handle.
Restart ==
  /\ run = 1 /\ Finished
  /\ out1' = out
  /\ status1' = status
  /\ run' = 2
  /\ status' = "init"
  /\ out' = <<>>
  /\ visits' = <<>>
  /\ UNCHANGED <<input, alt, stack, level>>

Init ==
  /\ IsInput(input)
  /\ alt = input
  /\ run = 1
  /\ status = "init"
  /\ stack = <<>>
  /\ out = <<>>
  /\ level = 0
  /\ visits = <<>>
  /\ out1 = <<>>
  /\ status1 = ""

Next ==
  \/ Create
  \/ DecodePrimitive
  \/ DecodeDict
  \/ DecodeListEmpty
  \/ DecodeListPrimitive
  \/ DecodeListDict
  \/ DecodeEnd
  \/ WriteBlockStep
  \/ Return
  \/ CreateEnd
  \/ Unwind

Spec == Init /\ [][Next]_vars

-----------------------------------------------------------------------------
(* Vocabulary of the properties: the document read along its chains of     *)
(* first elements, and the writes read by kind.                            *)

RECURSIVE ChainTip(_)
ChainTip(v) == IF v.t = "list" /\ v.items # <<>> THEN ChainTip(v.items[1]) ELSE v

RECURSIVE ChainLevels(_)
ChainLevels(v) == IF v.t = "list" /\ v.items # <<>> THEN 1 + ChainLevels(v.items[1]) ELSE 0

IsPrimitive(v) == v.t \notin {"dict", "list"}
IsEmptyChain(v) == v.t = "list" /\ ChainTip(v).t = "list"
IsListOfObjects(v) == v.t = "list" /\ ChainTip(v).t = "dict"
IsListOfPrimitives(v) == v.t = "list" /\ IsPrimitive(ChainTip(v))
Recurses(v) == v.t = "dict" \/ IsListOfObjects(v)

\* d: the list levels between the field's value and its innermost first element.
ExtraLevels(v) == ChainLevels(v) - 1

\* The object a path of field indices leads to, through first elements.
RECURSIVE ObjAt(_, _)
ObjAt(doc, path) ==
  IF path = <<>> THEN doc ELSE ObjAt(ChainTip(doc.items[Head(path)]), Tail(path))

\* The name under which the object at a path is visited.
NameAt(doc, path) ==
  IF path = <<>> THEN "root"
  ELSE ObjAt(doc, SubSeq(path, 1, Len(path) - 1)).keys[path[Len(path)]]

IsPrefix(p, q) == Len(p) <= Len(q) /\ SubSeq(q, 1, Len(p)) = p
IsBelow(q, p) == Len(p) < Len(q) /\ SubSeq(q, 1, Len(p)) = p

Pos(kind) == {p \in 1..Len(out) : out[p].kind = kind}
RecordPos == Pos("record")
EdgePos == Pos("edge")
RecordsAt(path) == {p \in RecordPos : out[p].path = path}
EdgesOf(path, key) == {p \in EdgePos : out[p].path = path /\ out[p].dst = key}
VisitPaths == {visits[k].path : k \in 1..Len(visits)}
Count(seq, x) == Cardinality({k \in 1..Len(seq) : seq[k] = x})

-----------------------------------------------------------------------------
\* C1: the root visit has instance number 0, and every later visit has an
\* instance number strictly greater than that of every visit made before it
\* (so no two visits of a session share a number).
C1_InstanceNumbersIncrease ==
  /\ visits # <<>> => visits[1].inst = 0
  /\ \A j, k \in 1..Len(visits) : j < k => visits[j].inst < visits[k].inst

\* C2: an object with a field whose chain of first elements ends in an empty
\* list is walked without error, and once the walk is over its record is
\* written with that field labelled 'list', with no edge and no visit for it.
C2_EmptyArrayDoesNotFail ==
  \A k \in 1..Len(stack) :
    \A j \in 1..Len(stack[k].root.items) :
      IsEmptyChain(stack[k].root.items[j]) =>
        /\ status # "error"
        /\ stack[k].todo = <<>> =>
             /\ \E p \in RecordsAt(stack[k].path) :
                  out[p].fields[j] = <<stack[k].root.keys[j], <<"list">>>>
             /\ EdgesOf(stack[k].path, stack[k].root.keys[j]) = {}

\* C3: a record is written only when every field of its object has been
\* processed and every object visited beneath it has had its record written;
\* nothing of its subtree is written after it, and the root's record is the
\* last record of a completed session.
C3_PostOrderRecords ==
  /\ \A p \in RecordPos :
       /\ \A k \in 1..Len(stack) :
            stack[k].path = out[p].path => stack[k].i > Len(stack[k].root.keys)
       /\ \A q \in 1..Len(out) : IsBelow(out[q].path, out[p].path) => q < p
       /\ \A v \in VisitPaths :
            IsBelow(v, out[p].path) => \E q \in RecordsAt(v) : q < p
  /\ status = "done" =>
       /\ RecordPos # {}
       /\ \A p \in RecordPos :
            (\A q \in RecordPos : q <= p) => out[p].path = <<>> /\ out[p].name = "root"

\* C3 witness: a completed walk of a document with an object inside an object
\* inside the root: three records, the innermost first.
C3_Witness ==
  /\ status = "done"
  /\ \E p, q, r \in RecordPos :
       /\ p < q /\ q < r
       /\ Len(out[p].path) = 2 /\ Len(out[q].path) = 1 /\ out[r].path = <<>>
       /\ IsBelow(out[p].path, out[q].path)

\* The paths of the objects reachable from doc through object-valued fields
\* and chains of first elements.
RECURSIVE ReachablePaths(_)
ReachablePaths(doc) ==
  {<<>>} \cup
  UNION {{<<j>> \o r : r \in ReachablePaths(ChainTip(doc.items[j]))} :
         j \in {i \in 1..Len(doc.items) : Recurses(doc.items[i])}}

FieldKeys(fields) == [k \in 1..Len(fields) |-> fields[k][1]]

\* C4: once a walk has completed, every field holding a list whose chain of
\* first elements reaches an object after d extra list levels has exactly one
\* '..' edge, from the holder's name to the key, with a note of exactly d '[]'
\* pairs, and exactly one record, named by the key, listing the keys of that
\* first element; at any time each visited position has at most one record,
\* and every record lists the keys of the object its path reaches through
\* first elements only.
C4_ArrayOfObjects ==
  LET reach == ReachablePaths(Doc)
  IN
  /\ \A p \in RecordPos :
       /\ Cardinality(RecordsAt(out[p].path)) = 1
       /\ out[p].path \in reach
       /\ FieldKeys(out[p].fields) = ObjAt(Doc, out[p].path).keys
  /\ \A v \in reach :
       LET h == ObjAt(Doc, v)
       IN \A j \in 1..Len(h.items) :
            IsListOfObjects(h.items[j]) =>
              /\ Cardinality(EdgesOf(v, h.keys[j])) <= 1
              /\ \A p \in EdgesOf(v, h.keys[j]) :
                   /\ out[p].conn = ".."
                   /\ out[p].name = NameAt(Doc, v)
                   /\ out[p].note # <<>>
                   /\ Count(out[p].note, "[]") = ExtraLevels(h.items[j])
              /\ \A p \in RecordsAt(Append(v, j)) : out[p].name = h.keys[j]
              /\ status = "done" =>
                   /\ Cardinality(EdgesOf(v, h.keys[j])) = 1
                   /\ Cardinality(RecordsAt(Append(v, j))) = 1

\* C4 witness: a completed walk whose root holds a list of two elements, nested
\* one extra level, with an object as its innermost first element.
C4_Witness ==
  /\ status = "done"
  /\ \E j \in 1..Len(Doc.items) :
       /\ IsListOfObjects(Doc.items[j])
       /\ ExtraLevels(Doc.items[j]) = 1
       /\ Len(Doc.items[j].items) = 2
       /\ ChainTip(Doc.items[j]).keys # <<>>
       /\ EdgesOf(<<>>, Doc.keys[j]) # {}

\* C5: in every record written, a field holding a list whose chain of first
\* elements reaches a primitive after d extra list levels is labelled 'list',
\* d '[]' pairs, and the primitive's type name in brackets; no edge is written
\* and no visit is made for such a field.
C5_ArrayOfPrimitives ==
  /\ \A p \in RecordPos :
       LET h == ObjAt(Doc, out[p].path)
       IN \A j \in 1..Len(h.items) :
            IsListOfPrimitives(h.items[j]) =>
              out[p].fields[j] =
                <<h.keys[j],
                  <<"list">> \o Rep("[]", ExtraLevels(h.items[j]))
                             \o <<"[", ChainTip(h.items[j]).t, "]">>>>
  /\ \A v \in ReachablePaths(Doc) :
       LET h == ObjAt(Doc, v)
       IN \A j \in 1..Len(h.items) :
            IsListOfPrimitives(h.items[j]) =>
              /\ EdgesOf(v, h.keys[j]) = {}
              /\ Append(v, j) \notin VisitPaths
              /\ \A q \in 1..Len(out) : ~IsPrefix(Append(v, j), out[q].path)

\* C5 witness: the root's record is written for a document whose root holds a
\* two-element list of lists with a primitive as innermost first element.
C5_Witness ==
  /\ status = "done"
  /\ RecordsAt(<<>>) # {}
  /\ \E j \in 1..Len(Doc.items) :
       /\ IsListOfPrimitives(Doc.items[j])
       /\ ExtraLevels(Doc.items[j]) = 1
       /\ Len(Doc.items[j].items) = 2

AllPrimitive(doc) == \A j \in 1..Len(doc.items) : IsPrimitive(doc.items[j])

\* C6: a document whose fields are all primitives or null is walked without
\* error and with no edge; the completed walk has written exactly one record,
\* named 'root', with one field per key, in key order, labelled with the type
\* name of the key's value.
C6_PrimitiveOnly ==
  AllPrimitive(Doc) =>
    /\ status \notin {"error", "aborted"}
    /\ EdgePos = {}
    /\ Cardinality(RecordPos) <= 1
    /\ status = "done" =>
         /\ Cardinality(RecordPos) = 1
         /\ \A p \in RecordPos :
              /\ out[p].name = "root"
              /\ out[p].fields =
                   [j \in 1..Len(Doc.keys) |-> <<Doc.keys[j], <<Doc.items[j].t>>>>]

\* C6 witness: a completed walk of a document with two primitive fields of
\* different types.
C6_Witness ==
  /\ status = "done"
  /\ AllPrimitive(Doc)
  /\ Len(Doc.keys) = 2
  /\ Doc.items[1].t # Doc.items[2].t

\* C7: '@startuml' is the first write of a session and is written once; a
\* closing '@enduml' is only ever written by the root (instance 0); a session
\* that completes has written it exactly once, as its last write.
C7_SessionFraming ==
  /\ status # "init" => out # <<>> /\ Pos("start") = {1}
  /\ \A p \in Pos("end") : out[p].inst = 0 /\ out[p].path = <<>>
  /\ status = "running" => Pos("end") = {}
  /\ status = "done" => Pos("end") = {Len(out)}

\* C7 witness: a completed walk in which the root visited two children, so
\* that a child instance was destroyed while the walk was still going on.
C7_Witness ==
  /\ status = "done"
  /\ <<1>> \in VisitPaths /\ <<2>> \in VisitPaths
  /\ out[Len(out)].kind = "end"

\* The index of a key among the keys of the object at a path.
FieldIndex(path, key) ==
  LET h == ObjAt(Doc, path) IN CHOOSE j \in 1..Len(h.keys) : h.keys[j] = key

\* The path of the child an edge leads to.
ChildPath(p) == Append(out[p].path, FieldIndex(out[p].path, out[p].dst))

\* C8 as stated: an edge is written before the walker enters the child, so
\* before the child's record and before anything of the child's subtree.
C8_EdgeBeforeRecursion ==
  \A p \in EdgePos :
    LET child == ChildPath(p)
    IN \A q \in 1..Len(out) : IsPrefix(child, out[q].path) => p < q

\* C8 as the code has it: an edge is written when the walker has returned
\* from the child.  It directly follows the child's record, which is the last
\* write of the child's subtree, and it precedes the holder's own record.
C8_EdgeAfterChild ==
  \A p \in EdgePos :
    LET child == ChildPath(p)
    IN /\ p > 1
       /\ out[p - 1].kind = "record"
       /\ out[p - 1].path = child
       /\ out[p - 1].name = out[p].dst
       /\ \A q \in 1..Len(out) : IsPrefix(child, out[q].path) => q < p
       /\ \A q \in RecordsAt(out[p].path) : p < q

\* C8 witness: an edge to a child that itself has a child, written after both
\* of their records and after the inner edge.
C8_Witness ==
  \E p \in EdgePos :
    /\ out[p].path = <<>>
    /\ \E q \in EdgePos : q < p /\ out[q].path = ChildPath(p)
    /\ \E q \in RecordPos : q < p /\ IsBelow(out[q].path, ChildPath(p))

\* C10: in a completed walk there is exactly one edge for each visit other
\* than the root's, written by the holder under the child's key, and no other
\* edge: edges number one less than records, the source of an edge is the
\* name of its holder's record and its destination the name of the child's.
C10_EdgesMatchRecursion ==
  status = "done" =>
    /\ Cardinality(EdgePos) = Cardinality(RecordPos) - 1
    /\ \A v \in VisitPaths :
         v # <<>> =>
           Cardinality({p \in EdgePos : ChildPath(p) = v}) = 1
    /\ \A p \in EdgePos :
         /\ ChildPath(p) \in VisitPaths
         /\ Recurses(ObjAt(Doc, out[p].path).items[FieldIndex(out[p].path, out[p].dst)])
         /\ \E q \in RecordsAt(out[p].path) : out[q].name = out[p].name
         /\ \E q \in RecordsAt(ChildPath(p)) : out[q].name = out[p].dst
    /\ \A v \in ReachablePaths(Doc) :
         LET h == ObjAt(Doc, v)
         IN \A j \in 1..Len(h.items) :
              Cardinality(EdgesOf(v, h.keys[j])) = IF Recurses(h.items[j]) THEN 1 ELSE 0

\* C10 witness: a completed walk with an edge from the root and an edge from a
\* child of the root.
C10_Witness ==
  /\ status = "done"
  /\ \E p, q \in EdgePos : out[p].path = <<>> /\ Len(out[q].path) = 1

-----------------------------------------------------------------------------
(* Two walks: a document, then the same document with every list cut down  *)
(* to its first element.  Any two documents that differ only in elements   *)
(* at index 1 or above are cut down to the same document.                  *)

RECURSIVE Trunc(_)
Trunc(v) ==
  IF v.t = "list"
  THEN IF v.items = <<>> THEN v ELSE List(<<Trunc(v.items[1])>>)
  ELSE IF v.t = "dict"
       THEN Dict(v.keys, [j \in 1..Len(v.items) |-> Trunc(v.items[j])])
       ELSE v

InitPair ==
  /\ IsInput(input)
  /\ alt = Trunc(input)
  /\ run = 1
  /\ status = "init"
  /\ stack = <<>>
  /\ out = <<>>
  /\ level = 0
  /\ visits = <<>>
  /\ out1 = <<>>
  /\ status1 = ""

NextPair == Next \/ Restart

SpecPair == InitPair /\ [][NextPair]_vars

\* What a write puts into the file.
Text(e) == [kind |-> e.kind, name |-> e.name, conn |-> e.conn, dst |-> e.dst,
            note |-> e.note, fields |-> e.fields]
Texts(o) == [k \in 1..Len(o) |-> Text(o[k])]
Walked(o) == SelectSeq(o, LAMBDA e : e.kind # "end")

\* C9: the walk of a document and the walk of the document cut down to first
\* elements end alike and write the same (up to the closing tag of an aborted
\* walk, which depends on the caller's handle); every instance walks an object
\* reached through first elements only, and a list whose first-element chain
\* ends in a primitive gets neither an edge nor a visit, whatever follows its
\* first element.
C9_FirstElementSampling ==
  /\ run = 2 /\ Finished =>
       /\ status = status1
       /\ Texts(Walked(out)) = Texts(Walked(out1))
       /\ status = "done" => Texts(out) = Texts(out1)
  /\ LET reach == ReachablePaths(Doc)
     IN \A k \in 1..Len(stack) :
          /\ stack[k].path \in reach
          /\ stack[k].root = ObjAt(Doc, stack[k].path)
  /\ \A k \in 1..Len(stack) :
       \A j \in 1..Len(stack[k].root.items) :
         IsListOfPrimitives(stack[k].root.items[j]) =>
           /\ EdgesOf(stack[k].path, stack[k].root.keys[j]) = {}
           /\ Append(stack[k].path, j) \notin VisitPaths

\* C9 witness: both walks completed, of a document holding a list with a
\* primitive first and an object second, and of its cut-down form.
C9_Witness ==
  /\ run = 2 /\ status = "done"
  /\ input # alt
  /\ \E j \in 1..Len(input.items) :
       /\ IsListOfPrimitives(input.items[j])
       /\ Len(input.items[j].items) = 2
       /\ input.items[j].items[2].t = "dict"
  /\ \E j \in 1..Len(input.items) :
       /\ IsListOfObjects(input.items[j])
       /\ Len(input.items[j].items) = 2

-----------------------------------------------------------------------------
(* Termination.  The walk is one synchronous computation of one thread:    *)
(* the interpreter takes the next step for as long as there is one.        *)

SpecFair == Init /\ [][Next]_vars /\ WF_vars(Next)

\* The nesting depth of a value: the containers (objects and lists) on its
\* deepest path, the value itself included.
RECURSIVE NestingDepth(_)
NestingDepth(v) ==
  IF v.t \notin {"dict", "list"} THEN 0
  ELSE 1 + (LET ds == {NestingDepth(v.items[j]) : j \in 1..Len(v.items)}
            IN IF ds = {} THEN 0 ELSE CHOOSE d \in ds : \A e \in ds : e <= d)

\* No object reachable through object-valued fields and first elements has a
\* field whose chain of first elements ends in an empty list.
RECURSIVE NoEmptyChain(_)
NoEmptyChain(doc) ==
  \A j \in 1..Len(doc.items) :
    LET tip == ChainTip(doc.items[j])
    IN /\ ~IsEmptyChain(doc.items[j])
       /\ tip.t = "dict" => NoEmptyChain(tip)

VisitsOf(path) == {k \in 1..Len(visits) : visits[k].path = path}

\* What holds of the walk of a document without such a field: it never fails,
\* the active constructor calls never outnumber the document's nesting depth,
\* and when create has returned every reachable object has been visited
\* exactly once and has exactly one record, and nothing else has.
C11_Coverage ==
  NoEmptyChain(Doc) =>
    /\ status \notin {"error", "aborted"}
    /\ Len(stack) <= NestingDepth(Doc)
    /\ status = "done" =>
         LET reach == ReachablePaths(Doc)
         IN /\ stack = <<>>
            /\ \A v \in reach :
                 /\ Cardinality(VisitsOf(v)) = 1
                 /\ Cardinality(RecordsAt(v)) = 1
            /\ Len(visits) = Cardinality(reach)
            /\ Cardinality(RecordPos) = Cardinality(reach)

\* C11: the walk started by Parser.create on a document with no empty list on
\* a chain of first elements eventually returns; when it has, every object
\* reachable through object-valued fields and first elements has been visited
\* exactly once, with one record each; and the active visits never outnumber
\* the nesting depth of the document.  (The document never changes during a
\* walk, so "eventually: no empty chain implies done" is "no empty chain
\* implies eventually done".)
C11_TerminationAndCoverage ==
  /\ []C11_Coverage
  /\ <>(NoEmptyChain(Doc) => status = "done")

\* C11 witness: create has returned from a document without empty lists that
\* holds an object inside an object and a list of objects, all of them visited.
C11_Witness ==
  /\ status = "done"
  /\ NoEmptyChain(Doc)
  /\ <<1, 1>> \in VisitPaths
  /\ \E j \in 1..Len(Doc.items) :
       IsListOfObjects(Doc.items[j]) /\ <<j>> \in VisitPaths
  /\ Len(visits) = Cardinality(ReachablePaths(Doc))

====
